---- MODULE Spec2Model ----
(***************************************************************************)
(* The random handout simulation of random_handout_problem.ipynb: the      *)
(* generator simulate(), the process-wide random module it draws from, and *)
(* the consumer's next(bank) pulls.                                        *)
(*                                                                         *)
(* Python lists are functions over 0..len-1 (the code's own indices).      *)
(***************************************************************************)
EXTENDS Integers, Sequences, FiniteSets, TLC

\* Bounds of the model (not program constants).
MaxPlayers == 3
MaxWealth == 2
MaxPulls == 2
MaxTape == 6

\* The generator objects alive in the process: 1 is the notebook's `bank`,
\* 2 is a second call of simulate().
Instances == {1, 2}

VARIABLES
    NUMPLAYERS,   \* module global, cell 3
    INITWEALTH,   \* module global, cell 3
    bank,         \* bank[g]: the frame of generator g (locals, position, what it returned)
    tape,         \* every value random.randint has returned in this process, in order
    fed,          \* fed[g]: per step of g, the draws that step took
    out           \* out[g]: the snapshots g has yielded, in order

vars == <<NUMPLAYERS, INITWEALTH, bank, tape, fed, out>>

----------------------------------------------------------------------------
\* Python list helpers

\* [x] * n : n copies of x; the empty list when n <= 0
ListRepeat(x, n) == [i \in 0..(n - 1) |-> x]

len(list) == Cardinality(DOMAIN list)

RECURSIVE SumTo(_, _)
SumTo(list, n) == IF n = 0 THEN 0 ELSE list[n - 1] + SumTo(list, n - 1)

\* sum(list)
sum(list) == SumTo(list, len(list))

\* list[r] is defined for -len <= r < len; a negative r counts from the end
ValidIndex(list, r) == (0 - len(list)) <= r /\ r < len(list)

NormIndex(list, r) == IF r < 0 THEN r + len(list) ELSE r

----------------------------------------------------------------------------
\* The statements of simulate()

\* random.randint(a, b): the values it can return (a <= N <= b); none when a > b
randint_upto(a, b) == a..(b + 1)

randint(a, b) == a..b

\* `if wealth:` -- any non-zero wealth counts as having money
truthy_always(wealth) == TRUE

truthy_positive(wealth) == wealth > 0

truthy(wealth) == wealth # 0

\* max(0, player_wealth - 1)
decrement_nofloor(player_wealth) == player_wealth - 1

decrement(player_wealth) == IF player_wealth - 1 > 0 THEN player_wealth - 1 ELSE 0

\* next_step[r] += 1, r being the draw of `player`
GiftToOther(next_step, player, r) ==
    IF r = player THEN next_step
    ELSE [next_step EXCEPT ![NormIndex(next_step, r)] = @ + 1]

GiftFromLiveWealth(next_step, player, r) ==
    IF next_step[player] > 0
      THEN [next_step EXCEPT ![NormIndex(next_step, r)] = @ + 1]
      ELSE next_step

GiftAssigns(next_step, player, r) ==
    [next_step EXCEPT ![NormIndex(next_step, r)] = 1]

Gift(next_step, player, r) ==
    [next_step EXCEPT ![NormIndex(next_step, r)] = @ + 1]

\* prev_step = [INITWEALTH]*NUMPLAYERS
initial_zero == ListRepeat(0, NUMPLAYERS)

initial_one_more == ListRepeat(INITWEALTH, NUMPLAYERS + 1)

initial_prev_step == ListRepeat(INITWEALTH, NUMPLAYERS)

\* The players the loop draws for: those whose previous wealth is truthy
Givers(prev_step) == {player \in DOMAIN prev_step : truthy(prev_step[player])}

\* The draws one pass of the loop can take: one randint result per giver
DrawChoices(prev_step) ==
    IF randint(0, NUMPLAYERS - 1) = {} THEN {<<>>}
    ELSE [Givers(prev_step) -> randint(0, NUMPLAYERS - 1)]

\* for player, wealth in enumerate(prev_step): if wealth: next_step[randint] += 1
\* from `player` on; rs[player] is what randint returns for `player`.
\* raised: randint's ValueError (empty range) or the list's IndexError.
RECURSIVE Give(_, _, _, _)
Give(next_step, prev_step, rs, player) ==
    IF player \notin DOMAIN prev_step
      THEN [raised |-> FALSE, next_step |-> next_step]
    ELSE IF ~truthy(prev_step[player])
      THEN Give(next_step, prev_step, rs, player + 1)
    ELSE IF randint(0, NUMPLAYERS - 1) = {}
      THEN [raised |-> TRUE, next_step |-> next_step]
    ELSE IF ~ValidIndex(next_step, rs[player])
      THEN [raised |-> TRUE, next_step |-> next_step]
    ELSE Give(Gift(next_step, player, rs[player]), prev_step, rs, player + 1)

\* The same loop visiting the players in the order order[0], order[1], ...
\* from position k on (the code's order is the increasing one)
RECURSIVE GiveOrdered(_, _, _, _, _)
GiveOrdered(next_step, prev_step, rs, order, k) ==
    IF k \notin DOMAIN order
      THEN [raised |-> FALSE, next_step |-> next_step]
    ELSE IF ~truthy(prev_step[order[k]])
      THEN GiveOrdered(next_step, prev_step, rs, order, k + 1)
    ELSE IF randint(0, NUMPLAYERS - 1) = {}
      THEN [raised |-> TRUE, next_step |-> next_step]
    ELSE IF ~ValidIndex(next_step, rs[order[k]])
      THEN [raised |-> TRUE, next_step |-> next_step]
    ELSE GiveOrdered(Gift(next_step, order[k], rs[order[k]]), prev_step, rs,
                     order, k + 1)

\* One pass of the loop body with the givers visited in the given order
StepOrdered(prev_step, rs, order) ==
    GiveOrdered([i \in DOMAIN prev_step |-> decrement(prev_step[i])],
                prev_step, rs, order, 0)

\* One pass of the loop body up to the yield
Step(prev_step, rs) ==
    Give([i \in DOMAIN prev_step |-> decrement(prev_step[i])], prev_step, rs, 0)

----------------------------------------------------------------------------
\* The generator frame

\* A generator object right after simulate() is called: no statement has run
NewFrame ==
    [pc |-> "start", prev_step |-> <<>>, next_step |-> <<>>, drawn |-> <<>>,
     pulls |-> 0, steps |-> 0, pulled |-> <<>>, before |-> <<>>]

\* Each call of simulate() has its own frame
FrameShared(g) == bank[1]

Frame(g) == bank[g]

\* What the resumed generator computes the step from: line 84 on the first
\* next(), `prev_step = next_step` after a yield
ResumeStale(f) == IF f.pc = "start" THEN initial_prev_step ELSE f.prev_step

Resume(f) == IF f.pc = "start" THEN initial_prev_step ELSE f.next_step

\* next(g) on frame f, randint returning rs: run to the next yield (or raise)
RunToYield(f, rs) ==
    LET prev == Resume(f)
        res  == Step(prev, rs)
    IN  IF res.raised
          THEN [f EXCEPT !.pc = "raised", !.prev_step = prev, !.drawn = rs,
                         !.pulls = @ + 1]
          ELSE [pc |-> "yield", prev_step |-> prev, next_step |-> res.next_step,
                drawn |-> rs, pulls |-> f.pulls + 1, steps |-> f.steps + 1,
                pulled |-> res.next_step, before |-> f.pulled]

\* The draws of rs in the order the loop took them (increasing player)
RECURSIVE InOrder(_, _)
InOrder(rs, player) ==
    IF \A j \in DOMAIN rs : j < player THEN <<>>
    ELSE IF player \in DOMAIN rs THEN <<rs[player]>> \o InOrder(rs, player + 1)
    ELSE InOrder(rs, player + 1)

----------------------------------------------------------------------------
\* Initial state: the globals of cell 3 (any integers here), generators created

Init ==
    /\ NUMPLAYERS \in (0 - 1)..MaxPlayers
    /\ INITWEALTH \in (0 - MaxWealth)..MaxWealth
    /\ bank = [g \in Instances |-> NewFrame]
    /\ tape = <<>>
    /\ fed = [g \in Instances |-> <<>>]
    /\ out = [g \in Instances |-> <<>>]

\* next(g): a finished generator yields nothing more
PullWith(g, rs) ==
    /\ Frame(g).pc \in {"start", "yield"}
    /\ Frame(g).pulls < MaxPulls
    /\ rs \in DrawChoices(Resume(Frame(g)))
    /\ bank' = [bank EXCEPT ![g] = RunToYield(Frame(g), rs)]
    /\ UNCHANGED <<NUMPLAYERS, INITWEALTH>>

\* The notebook: next(bank), one generator
Pull ==
    /\ \E rs \in DrawChoices(Resume(Frame(1))) : PullWith(1, rs)
    /\ UNCHANGED <<tape, fed, out>>

Next == Pull

Spec == Init /\ [][Next]_vars

\* Two generators of one process, pulled in any interleaving
Pull2(g) ==
    \E rs \in DrawChoices(Resume(Frame(g))) :
        /\ Len(tape) + Cardinality(DOMAIN rs) <= MaxTape
        /\ PullWith(g, rs)
        /\ tape' = tape \o InOrder(rs, 0)
        /\ fed' = [fed EXCEPT ![g] = Append(@, rs)]
        /\ out' = [out EXCEPT ![g] =
                     IF bank'[g].pc = "yield" THEN Append(@, bank'[g].pulled) ELSE @]

Next2 == \E g \in Instances : Pull2(g)

Spec2 == Init /\ [][Next2]_vars

----------------------------------------------------------------------------
\* What the claims speak of

ValidConfig == NUMPLAYERS >= 1 /\ INITWEALTH >= 0

Yielded(g) == bank[g].pc = "yield"

NonNegative(list) == \A i \in DOMAIN list : list[i] >= 0

\* How many of the players with positive previous wealth drew i
Received(f, i) ==
    Cardinality({j \in DOMAIN f.prev_step :
                    f.prev_step[j] > 0 /\ j \in DOMAIN f.drawn /\ f.drawn[j] = i})

\* C1: conservation. With N >= 1 and W >= 0, every snapshot simulate() yields
\* sums to N*W, and to the sum of the distribution it was computed from.
C1_Conservation ==
    ValidConfig =>
        \A g \in Instances : Yielded(g) =>
            /\ sum(bank[g].next_step) = NUMPLAYERS * INITWEALTH
            /\ sum(bank[g].next_step) = sum(bank[g].prev_step)

\* A later snapshot in which one player was at the floor and another gained
C1_Witness ==
    /\ ValidConfig /\ Yielded(1) /\ bank[1].pulls >= 2
    /\ \E i \in DOMAIN bank[1].prev_step : bank[1].prev_step[i] = 0
    /\ \E i \in DOMAIN bank[1].next_step : bank[1].next_step[i] > INITWEALTH

\* C2: non-negativity. In every snapshot simulate() yields, whatever the draws
\* and the configuration, every player's wealth is >= 0.
C2_NonNegative ==
    \A g \in Instances : Yielded(g) => NonNegative(bank[g].next_step)

\* A player at 0 who received nothing stays at 0
C2_Witness ==
    /\ Yielded(1) /\ bank[1].pulls >= 2
    /\ \E i \in DOMAIN bank[1].prev_step :
          bank[1].prev_step[i] = 0 /\ bank[1].next_step[i] = 0

\* C3: the update rule. From a non-negative prev, the draws are taken by exactly
\* the players with prev > 0, and next[i] = max(0, prev[i] - 1) + the number of
\* those players (i included) whose draw is i; a player at 0 ends with exactly
\* the gifts it received.
C3_UpdateRule ==
    \A g \in Instances :
        (Yielded(g) /\ NonNegative(bank[g].prev_step)) =>
            LET f == bank[g] IN
            /\ DOMAIN f.drawn = {j \in DOMAIN f.prev_step : f.prev_step[j] > 0}
            /\ DOMAIN f.next_step = DOMAIN f.prev_step
            /\ \A i \in DOMAIN f.prev_step :
                  /\ f.next_step[i] =
                        (IF f.prev_step[i] >= 1 THEN f.prev_step[i] - 1 ELSE 0)
                        + Received(f, i)
                  /\ f.prev_step[i] = 0 => f.next_step[i] = Received(f, i)

\* A step with a self-gift and a player at 0 that received a gift
C3_Witness ==
    /\ Yielded(1) /\ NonNegative(bank[1].prev_step)
    /\ \E j \in DOMAIN bank[1].drawn : bank[1].drawn[j] = j
    /\ \E i \in DOMAIN bank[1].prev_step :
          bank[1].prev_step[i] = 0 /\ bank[1].next_step[i] >= 1

\* C4: initialization. With N >= 1 and W >= 0, the first step is computed from
\* a distribution of length N whose every element is W (sum N*W), and every
\* snapshot has length N.
C4_Initialization ==
    ValidConfig =>
        \A g \in Instances : Yielded(g) =>
            /\ bank[g].pulls = 1 =>
                  /\ DOMAIN bank[g].prev_step = 0..(NUMPLAYERS - 1)
                  /\ \A i \in DOMAIN bank[g].prev_step :
                        bank[g].prev_step[i] = INITWEALTH
                  /\ sum(bank[g].prev_step) = NUMPLAYERS * INITWEALTH
            /\ len(bank[g].next_step) = NUMPLAYERS

\* The first pull of a configuration with several players and money
C4_Witness ==
    /\ NUMPLAYERS >= 2 /\ INITWEALTH >= 1
    /\ Yielded(1) /\ bank[1].pulls = 1
    /\ bank[1].next_step # bank[1].prev_step

\* C5: stream ordering. The first element pulled is one step applied to the
\* initial all-W distribution, the k-th element is the result of exactly k
\* steps, each computed from the element pulled just before it, and no step
\* runs between pulls (none before the first).
C5_StreamOrdering ==
    \A g \in Instances :
        LET f == bank[g] IN
        /\ f.steps = f.pulls
        /\ f.pc = "start" <=> f.pulls = 0
        /\ Yielded(g) =>
              /\ f.pulled = f.next_step
              /\ f.pulled = Step(f.prev_step, f.drawn).next_step
              /\ f.pulls = 1 => f.prev_step = ListRepeat(INITWEALTH, NUMPLAYERS)
              /\ f.pulls >= 2 => f.prev_step = f.before

\* A second pull whose element differs from the first, which differs from the
\* initial distribution
C5_Witness ==
    /\ Yielded(1) /\ bank[1].pulls = 2
    /\ bank[1].before # ListRepeat(INITWEALTH, NUMPLAYERS)
    /\ bank[1].pulled # bank[1].before

\* C6: the stream never ends and never fails. With N >= 1 and W >= 0 no pull
\* raises, every index drawn lies in 0..N-1, and a further pull is always
\* possible (up to the model's bound on the number of pulls).
C6_NeverFails ==
    ValidConfig =>
        /\ \A g \in Instances :
              /\ bank[g].pc \in {"start", "yield"}
              /\ \A j \in DOMAIN bank[g].drawn :
                    bank[g].drawn[j] \in 0..(NUMPLAYERS - 1)
        /\ bank[1].pulls < MaxPulls => ENABLED Pull

\* Several pulls done, the last with every player drawing the last index
C6_Witness ==
    /\ ValidConfig /\ NUMPLAYERS >= 2
    /\ Yielded(1) /\ bank[1].pulls >= 2
    /\ DOMAIN bank[1].drawn # {}
    /\ \A j \in DOMAIN bank[1].drawn : bank[1].drawn[j] = NUMPLAYERS - 1

\* C7 as stated: with N < 1 initialization fails, so no generator ever yields
\* a snapshot.
C7_InvalidConfigurationFails ==
    (NUMPLAYERS < 1 /\ INITWEALTH >= 0) => \A g \in Instances : bank[g].pc = "start"

\* C7 amended: with N < 1 nothing fails. The generator exists, every pull
\* returns the empty distribution, computed from the empty distribution, and
\* no random index is drawn.
C7_EmptyStream ==
    NUMPLAYERS < 1 =>
        \A g \in Instances :
            /\ bank[g].pc \in {"start", "yield"}
            /\ Yielded(g) =>
                  /\ bank[g].pulled = <<>>
                  /\ bank[g].prev_step = <<>>
                  /\ bank[g].drawn = <<>>

\* Two pulls done with a negative number of players
C7_Witness ==
    NUMPLAYERS < 0 /\ Yielded(1) /\ bank[1].pulls >= 2

\* C8: every person with money gives to one randomly chosen OTHER person: the
\* recipient drawn for a giver i is never i itself.
C8_NeverSelf ==
    \A g \in Instances :
        \A i \in DOMAIN bank[g].drawn : bank[g].drawn[i] # i

----------------------------------------------------------------------------
\* Two generators in one process (Spec2)

Min(a, b) == IF a <= b THEN a ELSE b

\* How many draws the steps fs took
RECURSIVE DrawCount(_)
DrawCount(fs) ==
    IF fs = <<>> THEN 0 ELSE Cardinality(DOMAIN Head(fs)) + DrawCount(Tail(fs))

\* The snapshots a generator yields when its steps take the draws fs[1], fs[2], ...
\* and nothing else acts on it
RECURSIVE Replay(_, _)
Replay(prev_step, fs) ==
    IF fs = <<>> THEN <<>>
    ELSE LET res == Step(prev_step, Head(fs))
         IN  IF res.raised THEN <<>>
             ELSE <<res.next_step>> \o Replay(res.next_step, Tail(fs))

\* The draws a step from prev_step takes when the random module is at position
\* pos of the tape: the next values, one per giver in increasing order
TapeDraws(prev_step, pos) ==
    [j \in Givers(prev_step) |->
        tape[pos + Cardinality({i \in Givers(prev_step) : i <= j})]]

\* The first k snapshots of a generator that is the only one to draw from the
\* random module, as far as the tape tells
RECURSIVE Alone(_, _, _)
Alone(prev_step, pos, k) ==
    IF k = 0 \/ pos + Cardinality(Givers(prev_step)) > Len(tape) THEN <<>>
    ELSE LET res == Step(prev_step, TapeDraws(prev_step, pos))
         IN  IF res.raised THEN <<>>
             ELSE <<res.next_step>>
                  \o Alone(res.next_step, pos + Cardinality(Givers(prev_step)), k - 1)

C10_SameAsAlone ==
    ValidConfig =>
        \A g \in Instances :
            LET alone == Alone(ListRepeat(INITWEALTH, NUMPLAYERS), 0, Len(out[g]))
            IN  \A k \in 1..Len(alone) : out[g][k] = alone[k]

\* C10 amended: the generators share the process-wide random module and nothing
\* else. Each keeps its own distribution: under any interleaving its snapshots
\* are those of a lone run fed the draws it took itself, and every draw of the
\* shared stream went to exactly one step of one generator.
C10_OwnDistributionSharedRandom ==
    /\ \A g \in Instances :
          /\ out[g] = Replay(ListRepeat(INITWEALTH, NUMPLAYERS), fed[g])
          /\ Len(out[g]) = bank[g].pulls
          /\ Yielded(g) => bank[g].pulled = out[g][Len(out[g])]
    /\ Len(tape) = DrawCount(fed[1]) + DrawCount(fed[2])

\* Pulls interleaved 1, 2, 1, and generator 2's snapshot is not the one a lone
\* run would have yielded first
C10_Witness ==
    /\ NUMPLAYERS >= 2 /\ INITWEALTH >= 1
    /\ Len(out[1]) = 2 /\ Len(out[2]) = 1
    /\ bank[1].before # bank[1].pulled
    /\ out[2][1] # out[1][1]
    /\ out[2][1] # out[1][2]

----------------------------------------------------------------------------
\* Scenarios of one generator (Spec)

\* Every draw of the last step returned k
AllDrew(f, k) == \A j \in DOMAIN f.drawn : f.drawn[j] = k

\* C11: constant random source. With W >= 1 and every draw returning the same
\* index k, the first step from the all-W distribution yields W - 1 + N at k and
\* W - 1 at every other index, the sum staying N*W.
C11_ConstantSource ==
    \A g \in Instances : \A k \in 0..(NUMPLAYERS - 1) :
        (/\ NUMPLAYERS >= 1 /\ INITWEALTH >= 1
         /\ Yielded(g) /\ bank[g].pulls = 1 /\ AllDrew(bank[g], k)) =>
            /\ DOMAIN bank[g].pulled = 0..(NUMPLAYERS - 1)
            /\ \A i \in DOMAIN bank[g].pulled :
                  bank[g].pulled[i] =
                      IF i = k THEN INITWEALTH - 1 + NUMPLAYERS ELSE INITWEALTH - 1
            /\ sum(bank[g].pulled) = NUMPLAYERS * INITWEALTH

\* N = 2, W = 1, every draw 0: the first snapshot is [2, 0]
C11_Witness ==
    /\ NUMPLAYERS = 2 /\ INITWEALTH = 1
    /\ Yielded(1) /\ bank[1].pulls = 1 /\ AllDrew(bank[1], 0)
    /\ bank[1].pulled[0] = 2 /\ bank[1].pulled[1] = 0

\* C12: single-agent steady state. With N = 1 and W >= 0 every snapshot of the
\* stream is [W].
C12_SingleAgent ==
    (NUMPLAYERS = 1 /\ INITWEALTH >= 0) =>
        \A g \in Instances : Yielded(g) =>
            /\ DOMAIN bank[g].pulled = {0}
            /\ bank[g].pulled[0] = INITWEALTH

\* The single agent, with money, gave to itself in a second step
C12_Witness ==
    /\ NUMPLAYERS = 1 /\ INITWEALTH >= 1
    /\ Yielded(1) /\ bank[1].pulls >= 2
    /\ DOMAIN bank[1].drawn = {0} /\ bank[1].drawn[0] = 0

----------------------------------------------------------------------------
\* The random module's consumption (Spec2)

\* The players of a distribution with positive wealth
Positive(list) == {i \in DOMAIN list : list[i] > 0}

\* C13: randomness consumption. A step computed from a non-negative
\* distribution draws exactly one random index per player whose previous wealth
\* is positive and none for a player at 0: the random module returns as many
\* values during the step as there are players with prev > 0 (none when the
\* distribution is all zeros).
C13_DrawsPerStep ==
    [][\A g \in Instances :
          (bank'[g] # bank[g] /\ NonNegative(bank'[g].prev_step)) =>
              /\ Len(tape') = Len(tape) + Cardinality(Positive(bank'[g].prev_step))
              /\ DOMAIN bank'[g].drawn = Positive(bank'[g].prev_step)
              /\ SubSeq(tape', Len(tape) + 1, Len(tape')) = InOrder(bank'[g].drawn, 0)]_vars

\* A step from a distribution with a player at 0 and players with money: fewer
\* draws than players
C13_Witness ==
    /\ Yielded(1) /\ bank[1].pulls >= 2
    /\ \E i \in DOMAIN bank[1].prev_step : bank[1].prev_step[i] = 0
    /\ Cardinality(DOMAIN bank[1].drawn) >= 2
    /\ Len(tape) = DrawCount(fed[1]) + DrawCount(fed[2])
    /\ Len(tape) > Cardinality(DOMAIN bank[1].drawn)

----------------------------------------------------------------------------
\* Order of giving (Spec)

\* C14: order independence of giving. For the previous distribution and the
\* draw assigned to each giver, visiting the givers in any order yields the
\* same next distribution as the increasing order the code uses.
C14_OrderIndependent ==
    \A g \in Instances : Yielded(g) =>
        \A order \in Permutations(DOMAIN bank[g].prev_step) :
            LET res == StepOrdered(bank[g].prev_step, bank[g].drawn, order)
            IN  ~res.raised /\ res.next_step = bank[g].next_step

\* Two givers with different draws, one of them giving to the other, who had
\* one dollar: the orders differ in what the recipient holds when it gives
C14_Witness ==
    /\ Yielded(1)
    /\ \E i, j \in DOMAIN bank[1].drawn :
          /\ i # j
          /\ bank[1].drawn[i] = j
          /\ bank[1].drawn[j] # j
          /\ bank[1].prev_step[j] = 1
          /\ bank[1].prev_step[i] >= 2

----------------------------------------------------------------------------
\* Negative initial wealth (Spec)

\* C15: a negative initial wealth is accepted without error. With N >= 1 and
\* W < 0 the first step floors every player to 0 and still lets every player
\* give (non-zero wealth counts as money), so the first snapshot is the gifts
\* alone: non-negative with sum N instead of N*W; every later snapshot keeps
\* the sum N.
C15_NegativeWealth ==
    (NUMPLAYERS >= 1 /\ INITWEALTH < 0) =>
        \A g \in Instances :
            /\ bank[g].pc \in {"start", "yield"}
            /\ Yielded(g) =>
                  /\ NonNegative(bank[g].pulled)
                  /\ sum(bank[g].pulled) = NUMPLAYERS
                  /\ sum(bank[g].pulled) # NUMPLAYERS * INITWEALTH
                  /\ bank[g].pulls = 1 =>
                        /\ sum(bank[g].prev_step) = NUMPLAYERS * INITWEALTH
                        /\ DOMAIN bank[g].drawn = DOMAIN bank[g].prev_step
                        /\ \A i \in DOMAIN bank[g].pulled :
                              bank[g].pulled[i] =
                                  Cardinality({j \in DOMAIN bank[g].drawn :
                                                  bank[g].drawn[j] = i})

\* Two pulls done from a negative initial wealth, some player back at 0
C15_Witness ==
    /\ NUMPLAYERS >= 2 /\ INITWEALTH < 0
    /\ Yielded(1) /\ bank[1].pulls >= 2
    /\ \E i \in DOMAIN bank[1].prev_step : bank[1].prev_step[i] = 0
    /\ bank[1].pulled # bank[1].before

====
